---- MODULE Spec2Model ----
(***************************************************************************)
(* Grid-to-graph construction (init_stops, init_routes) and the A* search  *)
(* (find_path) of sample_project/c, with the driver main().                *)
(*                                                                         *)
(* Doubles are modelled exactly: every number the program computes on an   *)
(* 8-connected grid is of the form a + b*sqrt(2) + sqrt(r) with integers   *)
(* a, b and r >= 0, and is kept as the record [inf, a, b, r]; DBL_MAX is   *)
(* the record with inf = TRUE.  Comparisons are exact (by squaring).       *)
(* C arrays are 0-based; a table is a sequence and index t is element t+1. *)
(***************************************************************************)
EXTENDS Integers, Sequences, FiniteSets, TLC

\* Grid dimensions of the model (map.h uses 10 x 10).
MAP_SIZE_ROWS == 5
MAP_SIZE_COLS == 5

\* The grids of the model have at most MaxBlocked blocked interior cells, or at
\* most MaxOpen open ones (with 3 x 3 interior cells: every grid).
MaxBlocked == 4
MaxOpen == 4

VARIABLES
  map,      \* map[i][j]: 0 = open, non-zero = blocked
  ind,      \* ind[i][j]: index of the cell's stop, or negative
  stops,    \* the stop table
  s_len,
  routes,   \* the route table
  r_len,
  open,     \* find_path: the frontier (set of stop indices)
  closed,   \* find_path: the expanded stops
  path,     \* find_path: the output sequence of stop indices
  p_len,
  result,   \* find_path's return value: "none" before it returns
  oob,      \* TRUE once an index outside the stop table has been used
  out,      \* what main has printed
  pc

vars == <<map, ind, stops, s_len, routes, r_len,
          open, closed, path, p_len, result, oob, out, pc>>

------------------------------------------------------------------------------
\* Numbers

Num(a, b, r) == [inf |-> FALSE, a |-> a, b |-> b, r |-> r]

Zero == Num(0, 0, 0)

DBL_MAX == [inf |-> TRUE, a |-> 0, b |-> 0, r |-> 0]

\* a field realloc'ed and not yet assigned; the model never reads it
Indeterminate == [inf |-> TRUE, a |-> 0, b |-> 0, r |-> 1]

\* the integer k >= 0 with k*k = n, or -1 when n is not a perfect square
IntRoot(n) ==
  IF \E k \in 0..n : k * k = n THEN CHOOSE k \in 0..n : k * k = n ELSE -1

\* sqrt(n) for an integer n >= 0, in normal form
Sqrt(n) ==
  IF IntRoot(n) >= 0 THEN Num(IntRoot(n), 0, 0)
  ELSE IF n % 2 = 0 /\ IntRoot(n \div 2) >= 0 THEN Num(0, IntRoot(n \div 2), 0)
  ELSE Num(0, 0, n)

\* x + y for finite x in Z[sqrt 2] and finite y
Add(x, y) == Num(x.a + y.a, x.b + y.b, y.r)

\* sign of P + Q*sqrt(2)
SgnZ2(P, Q) ==
  IF P = 0 /\ Q = 0 THEN 0
  ELSE IF P >= 0 /\ Q >= 0 THEN 1
  ELSE IF P <= 0 /\ Q <= 0 THEN -1
  ELSE IF P > 0 THEN (IF P * P > 2 * Q * Q THEN 1 ELSE -1)
  ELSE (IF 2 * Q * Q > P * P THEN 1 ELSE -1)

\* sign of P + Q*sqrt(2) + sqrt(n1) - sqrt(n2)
SgnDiff(P, Q, n1, n2) ==
  LET sX == SgnZ2(P, Q)
      sD == IF n2 > n1 THEN 1 ELSE IF n2 < n1 THEN -1 ELSE 0
      A  == P * P + 2 * Q * Q - n1 - n2
      B  == 2 * P * Q
      m  == n1 * n2
      sY == SgnZ2(A, B)
      sq == IF sY >= 0 THEN (IF sY = 0 /\ m = 0 THEN 0 ELSE 1)
            ELSE SgnZ2(4 * m - A * A - 2 * B * B, 0 - 2 * A * B)
  IN  IF sX >= 0 /\ sD <= 0 THEN (IF sX = 0 /\ sD = 0 THEN 0 ELSE 1)
      ELSE IF sX <= 0 /\ sD >= 0 THEN -1
      ELSE IF sX > 0 THEN sq
      ELSE 0 - sq

\* x < y on doubles
Less(x, y) ==
  IF x.inf THEN FALSE
  ELSE IF y.inf THEN TRUE
  ELSE SgnDiff(x.a - y.a, x.b - y.b, x.r, y.r) < 0

------------------------------------------------------------------------------
\* The grid

Rows == 0..(MAP_SIZE_ROWS - 1)
Cols == 0..(MAP_SIZE_COLS - 1)

\* the cells that are not on the outermost ring
Interior == (1..(MAP_SIZE_ROWS - 2)) \X (1..(MAP_SIZE_COLS - 2))

\* mutant of ScanCols: the column loop stops one column early
\* (j < MAP_SIZE_COLS - 2)
ScanColsShort == MAP_SIZE_COLS - 3

\* the number of columns visited by "for (j = 1; j < MAP_SIZE_COLS - 1; j++)"
ScanCols == MAP_SIZE_COLS - 2

\* the number of rows visited by "for (i = 1; i < MAP_SIZE_ROWS - 1; i++)"
ScanRows == MAP_SIZE_ROWS - 2

\* the number of cells visited by the two loops, and the c-th of them
ScanLength == ScanRows * ScanCols

ScanCell(c) == <<1 + ((c - 1) \div ScanCols), 1 + ((c - 1) % ScanCols)>>

\* the q-th cell (q in 1..9) visited by "for k in i-1..i+1, for l in j-1..j+1"
NeighbourScan(i, j, q) == <<i - 1 + ((q - 1) \div 3), j - 1 + ((q - 1) % 3)>>

\* the value the lookup table holds for "not a node"
NoNode == -1

\* element t of a 0-based table
At(tbl, t) == tbl[t + 1]

------------------------------------------------------------------------------
\* init_stops

\* mutant of IsOpen: the test is inverted (map[i][j] instead of !map[i][j])
IsOpenInverted(m, i, j) == m[i][j] # 0

\* !map[i][j]
IsOpen(m, i, j) == m[i][j] = 0

\* mutant of NewStop: g starts at 0 instead of DBL_MAX
NewStopZeroCost(i, j) ==
  [col |-> j, row |-> i, from |-> -1, g |-> Zero, n_len |-> 0, n |-> <<>>,
   h |-> Indeterminate, f |-> Indeterminate]

NewStop(i, j) ==
  [col |-> j, row |-> i, from |-> -1, g |-> DBL_MAX, n_len |-> 0, n |-> <<>>,
   h |-> Indeterminate, f |-> Indeterminate]

\* mutant of ScanStops: the lookup table receives s_len instead of s_len - 1
RECURSIVE ScanStopsOffByOne(_, _, _)
ScanStopsOffByOne(k, m, s) ==
  IF k > ScanLength THEN s
  ELSE LET i == ScanCell(k)[1]
           j == ScanCell(k)[2]
           t == Len(s.stops) + 1
           next == IF m[i][j] = 0
                   THEN [stops |-> Append(s.stops,
                                          [col |-> j, row |-> i, from |-> -1,
                                           g |-> DBL_MAX, n_len |-> 0, n |-> <<>>,
                                           h |-> Indeterminate, f |-> Indeterminate]),
                         ind   |-> [s.ind EXCEPT ![i][j] = t]]
                   ELSE s
       IN  CHOOSE r \in {ScanStopsOffByOne(k2, m2, n) :
                          k2 \in {k + 1}, m2 \in {m}, n \in {next}} : TRUE

\* the loop nest of init_stops from position k of the scan on: the tables
\* s = [stops, ind] after it.  (Here and below, "CHOOSE r \in {F(n) : n \in {e}}"
\* is F(e), with the argument e evaluated once.)
RECURSIVE ScanStops(_, _, _)
ScanStops(k, m, s) ==
  IF k > ScanLength THEN s
  ELSE LET i == ScanCell(k)[1]
           j == ScanCell(k)[2]
           t == Len(s.stops)
           next == IF IsOpen(m, i, j)
                   THEN [stops |-> Append(s.stops, NewStop(i, j)),
                         ind   |-> [s.ind EXCEPT ![i][j] = t]]
                   ELSE s
       IN  CHOOSE r \in {ScanStops(k2, m2, n) :
                          k2 \in {k + 1}, m2 \in {m}, n \in {next}} : TRUE

\* sqrt(pow(e.row - s.row, 2) + pow(e.col - s.col, 2))
Heuristic(s, e) ==
  Sqrt((e.row - s.row) * (e.row - s.row) + (e.col - s.col) * (e.col - s.col))

\* second loop of init_stops: h of every stop, relative to the last stop
SetHeuristics(st) ==
  [t \in 1..Len(st) |-> [st[t] EXCEPT !.h = Heuristic(st[t], st[Len(st)])]]

InitStops ==
  /\ pc = "start"
  /\ \E sc \in {ScanStops(1, map, [stops |-> <<>>, ind |-> ind])} :
       /\ stops' = SetHeuristics(sc.stops)
       /\ s_len' = Len(sc.stops)
       /\ ind' = sc.ind
  /\ pc' = "stops_done"
  /\ UNCHANGED <<map, routes, r_len, open, closed, path, p_len, result, oob, out>>

------------------------------------------------------------------------------
\* init_routes

\* ind[i][j] >= 0
IsNode(idx, i, j) == idx[i][j] >= 0

InTable(t, st) == t >= 0 /\ t < Len(st)

\* mutant of RouteLength: the sum of the squares without the square root, so a
\* diagonal route weighs 2
RouteLengthSquared(sx, sy) ==
  Num((sy.row - sx.row) * (sy.row - sx.row) + (sy.col - sx.col) * (sy.col - sx.col), 0, 0)

\* sqrt(pow(stops[y].row - stops[x].row, 2) + pow(stops[y].col - stops[x].col, 2))
RouteLength(sx, sy) ==
  Sqrt((sy.row - sx.row) * (sy.row - sx.row) + (sy.col - sx.col) * (sy.col - sx.col))

\* mutant of AppendNeighbour: the list is overwritten, only the last route of
\* a stop is kept
AppendNeighbourOverwrite(st, x, t) ==
  [st EXCEPT ![x + 1].n_len = 1, ![x + 1].n = <<t>>]

\* stops[x].n_len++, realloc of stops[x].n, stops[x].n[n_len - 1] = t
AppendNeighbour(st, x, t) ==
  [st EXCEPT ![x + 1].n_len = @ + 1, ![x + 1].n = Append(@, t)]

\* the two inner loops of init_routes for cell (i, j), from neighbour q on: the
\* tables s = [routes, stops] after them.  junk is the value a read outside
\* the stop table yields; a write outside it is lost.
RECURSIVE ScanNeighbours(_, _, _, _, _, _)
ScanNeighbours(q, i, j, idx, s, junk) ==
  IF q > 9 THEN s
  ELSE LET k == NeighbourScan(i, j, q)[1]
           l == NeighbourScan(i, j, q)[2]
           x == idx[i][j]
           y == idx[k][l]
           t == Len(s.routes)
           d == IF InTable(x, s.stops) /\ InTable(y, s.stops)
                THEN RouteLength(At(s.stops, x), At(s.stops, y)) ELSE junk
           st2 == IF InTable(x, s.stops) THEN AppendNeighbour(s.stops, x, t)
                  ELSE s.stops
           next == IF ~(k = i /\ l = j) /\ IsNode(idx, k, l)
                   THEN [routes |-> Append(s.routes, [x |-> x, y |-> y, d |-> d]),
                         stops  |-> st2]
                   ELSE s
       IN  CHOOSE r \in {ScanNeighbours(q2, i2, j2, idx2, n, junk2) :
                          q2 \in {q + 1}, i2 \in {i}, j2 \in {j}, idx2 \in {idx},
                          n \in {next}, junk2 \in {junk}} : TRUE

\* the outer loops of init_routes from cell c of the scan on
RECURSIVE ScanRoutes(_, _, _, _)
ScanRoutes(c, idx, s, junk) ==
  IF c > ScanLength THEN s
  ELSE LET i == ScanCell(c)[1]
           j == ScanCell(c)[2]
           next == IF IsNode(idx, i, j)
                   THEN CHOOSE r \in {ScanNeighbours(1, i2, j2, idx, s, junk) :
                                      i2 \in {i}, j2 \in {j}} : TRUE
                   ELSE s
       IN  CHOOSE r \in {ScanRoutes(c2, idx2, n, junk2) :
                          c2 \in {c + 1}, idx2 \in {idx}, n \in {next},
                          junk2 \in {junk}} : TRUE

\* init_routes uses an index that is not in the stop table
RoutesOutOfTable ==
  \E c \in 1..ScanLength, q \in 1..9 :
    LET i == ScanCell(c)[1]
        j == ScanCell(c)[2]
        k == NeighbourScan(i, j, q)[1]
        l == NeighbourScan(i, j, q)[2]
    IN  /\ IsNode(ind, i, j) /\ ~(k = i /\ l = j) /\ IsNode(ind, k, l)
        /\ (~InTable(ind[i][j], stops) \/ ~InTable(ind[k][l], stops))

InitRoutes ==
  /\ pc = "stops_done"
  /\ ~RoutesOutOfTable
  /\ \E sc \in {ScanRoutes(1, ind, [routes |-> <<>>, stops |-> stops], Zero)} :
       /\ routes' = sc.routes
       /\ r_len' = Len(sc.routes)
       /\ stops' = sc.stops
  /\ pc' = "routes_done"
  /\ UNCHANGED <<map, ind, s_len, open, closed, path, p_len, result, oob, out>>

\* init_routes reads and writes outside the stop table (undefined behaviour):
\* the process is killed, or it goes on with what the stray reads returned
InitRoutesOutOfTable ==
  /\ pc = "stops_done"
  /\ RoutesOutOfTable
  /\ oob' = TRUE
  /\ \/ /\ pc' = "crashed"
        /\ UNCHANGED <<routes, r_len, stops>>
     \/ \E junk \in {Sqrt(1), Sqrt(2)} :
          \E sc \in {ScanRoutes(1, ind, [routes |-> <<>>, stops |-> stops], junk)} :
            /\ routes' = sc.routes
            /\ r_len' = Len(sc.routes)
            /\ stops' = sc.stops
            /\ pc' = "routes_done"
  /\ UNCHANGED <<map, ind, s_len, open, closed, path, p_len, result, out>>

------------------------------------------------------------------------------
\* find_path: A* from stop 0 to stop s_len - 1

\* f[u] < f[v], or f[u] = f[v] and u < v
Before(st, u, v) ==
  \/ Less(At(st, u).f, At(st, v).f)
  \/ (~Less(At(st, v).f, At(st, u).f) /\ u < v)

\* mutant of SelectMin: among stops of equal minimum f the highest index wins
SelectMinHighestIndex(fr, st) ==
  CHOOSE u \in fr : \A v \in fr \ {u} :
    \/ Less(At(st, u).f, At(st, v).f)
    \/ (~Less(At(st, v).f, At(st, u).f) /\ u > v)

\* the frontier stop with minimum f, the lowest index among equals
SelectMin(fr, st) ==
  CHOOSE u \in fr : \A v \in fr \ {u} : Before(st, u, v)

\* one outgoing route e of u: skip a closed destination, else relax it
Relax(u, e, cl, s) ==
  LET v  == e.y
      g2 == Add(At(s.stops, u).g, e.d)
  IN  IF v \in cl THEN s
      ELSE IF Less(g2, At(s.stops, v).g)
      THEN [stops |-> [s.stops EXCEPT ![v + 1].g = g2,
                                      ![v + 1].from = u,
                                      ![v + 1].f = Add(g2, At(s.stops, v).h)],
            open  |-> s.open \cup {v}]
      ELSE s

\* the outgoing routes of u from position q of its list on, in list order
RECURSIVE RelaxAll(_, _, _, _, _)
RelaxAll(u, q, rt, cl, s) ==
  IF q > Len(At(s.stops, u).n) THEN s
  ELSE CHOOSE r \in {RelaxAll(u2, q2, rt2, cl2, n) :
                     u2 \in {u}, q2 \in {q + 1}, rt2 \in {rt}, cl2 \in {cl},
                     n \in {Relax(u, At(rt, At(s.stops, u).n[q]), cl, s)}} : TRUE

\* mutant of Reconstruct: the stop with from = none is not appended
RECURSIVE ReconstructWithoutStart(_, _, _)
ReconstructWithoutStart(v, st, acc) ==
  IF At(st, v).from < 0 THEN acc
  ELSE ReconstructWithoutStart(At(st, v).from, st, Append(acc, v))

\* follow the from links from v until the stop with from = none is appended
RECURSIVE Reconstruct(_, _, _)
Reconstruct(v, st, acc) ==
  IF At(st, v).from < 0 THEN Append(acc, v)
  ELSE Reconstruct(At(st, v).from, st, Append(acc, v))

\* step 1: g[start] = 0, f[start] = h[start], frontier = {start}
FindPathStart ==
  /\ pc = "routes_done"
  /\ s_len > 0
  /\ stops' = [stops EXCEPT ![1].g = Zero, ![1].f = Add(Zero, stops[1].h)]
  /\ open' = {0}
  /\ pc' = "searching"
  /\ UNCHANGED <<map, ind, s_len, routes, r_len, closed, path, p_len, result, oob, out>>

\* step 1 on an empty stop table: stop 0 does not exist (undefined behaviour);
\* the process is killed, or find_path returns whatever the stray memory gives
FindPathEmptyTable ==
  /\ pc = "routes_done"
  /\ s_len = 0
  /\ oob' = TRUE
  /\ \/ pc' = "crashed" /\ UNCHANGED <<result, p_len>>
     \/ pc' = "notfound" /\ result' = "failure" /\ UNCHANGED p_len
     \/ \E len \in 0..1 : pc' = "found" /\ result' = "success" /\ p_len' = len
  /\ UNCHANGED <<map, ind, stops, s_len, routes, r_len, open, closed, path, out>>

\* step 2b: the selected stop is the goal
Succeed ==
  /\ pc = "searching"
  /\ open # {}
  /\ SelectMin(open, stops) = s_len - 1
  /\ path' = Reconstruct(s_len - 1, stops, <<>>)
  /\ p_len' = Len(path')
  /\ result' = "success"
  /\ pc' = "found"
  /\ UNCHANGED <<map, ind, stops, s_len, routes, r_len, open, closed, oob, out>>

\* steps 2c, 2d: close the selected stop and relax its outgoing routes
Expand ==
  /\ pc = "searching"
  /\ open # {}
  /\ \E u \in {SelectMin(open, stops)} :
       /\ u # s_len - 1
       /\ closed' = closed \cup {u}
       /\ \E s \in {RelaxAll(u, 1, routes, closed \cup {u},
                              [stops |-> stops, open |-> open \ {u}])} :
            /\ stops' = s.stops
            /\ open' = s.open
  /\ UNCHANGED <<map, ind, s_len, routes, r_len, path, p_len, result, oob, out, pc>>

\* step 3: the frontier is empty
Fail ==
  /\ pc = "searching"
  /\ open = {}
  /\ result' = "failure"
  /\ pc' = "notfound"
  /\ UNCHANGED <<map, ind, stops, s_len, routes, r_len, open, closed, path, p_len, oob, out>>

------------------------------------------------------------------------------
\* main, after find_path

\* find_path returned non-zero: main prints p_len and stops[path[i]] for
\* i = p_len-1 .. 0.  main's own path is still NULL (find_path received the
\* pointer by value), so with p_len > 0 the reads are undefined behaviour.
MainPrintPath ==
  /\ pc = "found"
  /\ \/ out' = "path" /\ pc' = "exit"
     \/ p_len > 0 /\ pc' = "crashed" /\ UNCHANGED out
  /\ UNCHANGED <<map, ind, stops, s_len, routes, r_len, open, closed, path, p_len,
                 result, oob>>

\* find_path returned zero: puts("IMPOSSIBLE")
MainPrintImpossible ==
  /\ pc = "notfound"
  /\ out' = "IMPOSSIBLE"
  /\ pc' = "exit"
  /\ UNCHANGED <<map, ind, stops, s_len, routes, r_len, open, closed, path, p_len,
                 result, oob>>

------------------------------------------------------------------------------
\* Initial states

\* the grids of the model, every border cell holding one of the values bs
GridsWithBorder(bs) ==
  { [i \in Rows |-> [j \in Cols |->
       IF <<i, j>> \in Interior
       THEN (IF <<i, j>> \in blocked THEN 1 ELSE 0)
       ELSE border]] :
    blocked \in {b \in SUBSET Interior :
                   \/ Cardinality(b) <= MaxBlocked
                   \/ Cardinality(Interior \ b) <= MaxOpen},
    border \in bs }

\* the lookup table as map.c defines it: every entry "not a node"
EmptyInd == [i \in Rows |-> [j \in Cols |-> NoNode]]

\* lookup tables with other initial contents: all zero, or one stale entry
OtherInds ==
  {[i \in Rows |-> [j \in Cols |-> 0]]}
  \cup {[EmptyInd EXCEPT ![i][j] = v] : i \in Rows, j \in Cols, v \in 0..1}

InitWith(grids, inds) ==
  /\ map \in grids
  /\ ind \in inds
  /\ stops = <<>>
  /\ s_len = 0
  /\ routes = <<>>
  /\ r_len = 0
  /\ open = {}
  /\ closed = {}
  /\ path = <<>>
  /\ p_len = 0
  /\ result = "none"
  /\ oob = FALSE
  /\ out = "nothing"
  /\ pc = "start"

\* the border all blocked or all open
Init == InitWith(GridsWithBorder({0, 1}), {EmptyInd})

InitAnyInd == InitWith(GridsWithBorder({0, 1}), {EmptyInd} \cup OtherInds)

\* the border all blocked, as in map.c
InitWalled == InitWith(GridsWithBorder({1}), {EmptyInd})

Next ==
  \/ InitStops
  \/ InitRoutes
  \/ FindPathStart
  \/ FindPathEmptyTable
  \/ Succeed
  \/ Expand
  \/ Fail
  \/ MainPrintPath
  \/ MainPrintImpossible

Spec == Init /\ [][Next]_vars

\* graph construction alone
NextBuild == InitStops \/ InitRoutes \/ InitRoutesOutOfTable

SpecBuildAnyInd == InitAnyInd /\ [][NextBuild]_vars

\* The program is one thread that runs to completion: every step that can be
\* taken is taken.  Here init_routes can always act in "stops_done" (the lookup
\* table starts empty, so RoutesOutOfTable is false) and no other step can,
\* so WF_vars(InitRoutes) is []<>(pc # "stops_done"); it is written that way.
Fairness ==
  /\ WF_vars(InitStops)
  /\ []<>(pc # "stops_done")
  /\ WF_vars(FindPathStart)
  /\ WF_vars(FindPathEmptyTable)
  /\ WF_vars(Succeed)
  /\ WF_vars(Expand)
  /\ WF_vars(Fail)
  /\ WF_vars(MainPrintPath)
  /\ WF_vars(MainPrintImpossible)

FairSpec == InitWalled /\ [][Next]_vars /\ Fairness

------------------------------------------------------------------------------
\* The grid as the specification describes it (independent of the scans)

OpenCells == {c \in Interior : map[c[1]][c[2]] = 0}

\* c comes before d in row-major order
RowMajorBefore(c, d) == c[1] < d[1] \/ (c[1] = d[1] /\ c[2] < d[2])

\* the number of open interior cells before c in row-major order
Rank(c) == Cardinality({d \in OpenCells : RowMajorBefore(d, c)})

\* distinct and touching by a side or a corner
Adjacent8(c, d) ==
  /\ c # d
  /\ c[1] - d[1] \in {-1, 0, 1}
  /\ c[2] - d[2] \in {-1, 0, 1}

AdjacentOpenPairs ==
  {cd \in OpenCells \X OpenCells : Adjacent8(cd[1], cd[2])}

StopsBuilt == pc # "start"

RoutesBuilt == pc \notin {"start", "stops_done"}

------------------------------------------------------------------------------
\* C1: for every grid with at least one open interior cell, after init_stops
\* s_len is the number of open interior cells, stop t is the t-th open
\* interior cell in row-major order (so stop 0 is the first and stop s_len-1
\* the last), and ind[row][col] of every open interior cell is the index of
\* the stop that holds exactly those coordinates.
C1_StopsInScanOrder ==
  (StopsBuilt /\ OpenCells # {}) =>
    /\ s_len = Cardinality(OpenCells)
    /\ Len(stops) = s_len
    /\ \A c \in OpenCells :
         /\ ind[c[1]][c[2]] = Rank(c)
         /\ At(stops, ind[c[1]][c[2]]).row = c[1]
         /\ At(stops, ind[c[1]][c[2]]).col = c[2]
    /\ \A c \in OpenCells :
         /\ (\A d \in OpenCells : d = c \/ RowMajorBefore(c, d)) =>
               (At(stops, 0).row = c[1] /\ At(stops, 0).col = c[2])
         /\ (\A d \in OpenCells : d = c \/ RowMajorBefore(d, c)) =>
               (At(stops, s_len - 1).row = c[1] /\ At(stops, s_len - 1).col = c[2])

\* init_stops has run on a grid where a blocked interior cell precedes an open
\* one, so that indices differ from scan positions
C1_Witness ==
  /\ pc = "stops_done"
  /\ s_len >= 3
  /\ \E c \in Interior \ OpenCells : \E d \in OpenCells : RowMajorBefore(c, d)

\* C2: after init_stops and init_routes, for every ordered pair (a, b) of
\* distinct 8-adjacent open interior cells there is exactly one route with
\* x = stop of a and y = stop of b, with d = 1 when a and b share a row or a
\* column and d = sqrt(2) when they are diagonal.
C2_RoutesBothDirections ==
  RoutesBuilt =>
    \A cd \in AdjacentOpenPairs :
      LET x == ind[cd[1][1]][cd[1][2]]
          y == ind[cd[2][1]][cd[2][2]]
          ts == {t \in 1..Len(routes) : routes[t].x = x /\ routes[t].y = y}
      IN  /\ Cardinality(ts) = 1
          /\ \A t \in ts :
               routes[t].d = IF cd[1][1] = cd[2][1] \/ cd[1][2] = cd[2][2]
                             THEN Num(1, 0, 0) ELSE Num(0, 1, 0)

\* init_routes has run on a grid with an axis-aligned and a diagonal adjacency
C2_Witness ==
  /\ pc = "routes_done"
  /\ \E cd \in AdjacentOpenPairs : cd[1][1] = cd[2][1]
  /\ \E cd \in AdjacentOpenPairs : cd[1][1] # cd[2][1] /\ cd[1][2] # cd[2][2]
  /\ r_len = Cardinality(AdjacentOpenPairs)

\* C3: whatever the grid and the lookup table hold initially, after graph
\* construction no stop lies on the outermost ring, the lookup of every border
\* cell and of every blocked interior cell is "not a node", and so no route
\* leads to a border cell or a blocked cell (the routes are exactly those of
\* the adjacent pairs of open interior cells).
C3_BorderAndBlockedAreNoNodes ==
  /\ StopsBuilt =>
       /\ \A t \in 1..Len(stops) : <<stops[t].row, stops[t].col>> \in Interior
       /\ \A c \in (Rows \X Cols) \ OpenCells : ind[c[1]][c[2]] = NoNode
  /\ pc = "routes_done" =>
       /\ r_len = Cardinality(AdjacentOpenPairs)
       /\ \A t \in 1..Len(routes) :
            \E c \in OpenCells : ind[c[1]][c[2]] = routes[t].y

------------------------------------------------------------------------------
\* The search as the specification describes it

Start == 0

Goal == s_len - 1

\* the open interior cells joined to c by sequences of 8-adjacent open cells
RECURSIVE Reach(_)
Reach(S) ==
  LET T == S \cup {d \in OpenCells : \E c \in S : Adjacent8(c, d)}
  IN  IF T = S THEN S ELSE Reach(T)

FirstOpen == CHOOSE c \in OpenCells : \A d \in OpenCells : d = c \/ RowMajorBefore(c, d)

LastOpen == CHOOSE c \in OpenCells : \A d \in OpenCells : d = c \/ RowMajorBefore(d, c)

StartGoalDisconnected == OpenCells # {} /\ LastOpen \notin Reach({FirstOpen})

\* the least element of a non-empty set of numbers
Least(S) == CHOOSE m \in S : \A o \in S : ~Less(o, m)

\* one round of relaxation of every route
Round(dist) ==
  [v \in DOMAIN dist |->
     Least({dist[v]} \cup
           {Add(dist[routes[t].x], routes[t].d) :
              t \in {u \in 1..Len(routes) :
                       routes[u].y = v /\ ~dist[routes[u].x].inf}})]

\* rounds of relaxation until nothing changes
RECURSIVE Rounds(_)
Rounds(dist) ==
  CHOOSE r \in {IF n = dist THEN dist ELSE Rounds(n) : n \in {Round(dist)}} : TRUE

\* the least cost of a path from Start to v in the built graph, or DBL_MAX
MinCost(v) ==
  Rounds([u \in 0..(s_len - 1) |-> IF u = Start THEN Zero ELSE DBL_MAX])[v]

HasRoute(x, y) == \E t \in 1..Len(routes) : routes[t].x = x /\ routes[t].y = y

RouteOf(x, y) == CHOOSE t \in 1..Len(routes) : routes[t].x = x /\ routes[t].y = y

\* the sum of the weights of the routes that join the consecutive entries of a
\* goal-first sequence of stops, from entry k on
RECURSIVE CostFrom(_, _)
CostFrom(seq, k) ==
  IF k >= Len(seq) THEN Zero
  ELSE Add(CostFrom(seq, k + 1), routes[RouteOf(seq[k + 1], seq[k])].d)

\* C4: whenever the search from stop 0 to the last stop returns success,
\* g[goal] is the sum of the weights of the routes along the reconstructed
\* path, and no path from start to goal in the built graph costs less.
C4_CostIsPathSumAndMinimal ==
  (pc = "found" /\ s_len > 0) =>
    /\ \A k \in 1..(Len(path) - 1) : HasRoute(path[k + 1], path[k])
    /\ At(stops, Goal).g = CostFrom(path, 1)
    /\ At(stops, Goal).g = MinCost(Goal)

\* the search has succeeded with a path of at least three stops on a grid with
\* a blocked interior cell
C4_Witness ==
  /\ pc = "found"
  /\ p_len >= 3
  /\ OpenCells # Interior

\* C5: if no sequence of 8-adjacent open interior cells joins the start cell
\* to the goal cell, the search never reports success and it terminates:
\* find_path returns failure with the frontier empty and no path produced.
C5_NoPathIsFailure ==
  /\ [](StartGoalDisconnected => result # "success" /\ path = <<>> /\ p_len = 0)
  /\ StartGoalDisconnected ~>
       (pc \in {"notfound", "exit"} /\ result = "failure" /\ open = {} /\ path = <<>>)

\* the search has failed on a grid whose start and goal are separated, after
\* expanding more than the start
C5_Witness ==
  /\ StartGoalDisconnected
  /\ pc = "notfound"
  /\ Cardinality(closed) >= 2

\* C6: with exactly one open interior cell the search returns success with the
\* path <<0>> of length 1, g[goal] = 0, and nothing expanded (no route
\* traversed).
C6_SingleCell ==
  (Cardinality(OpenCells) = 1 /\ pc \in {"found", "notfound", "exit", "crashed"}) =>
    /\ result = "success"
    /\ path = <<0>>
    /\ p_len = 1
    /\ At(stops, 0).g = Zero
    /\ closed = {}
    /\ r_len = 0

\* the search has returned on a grid with one open interior cell
C6_Witness ==
  /\ Cardinality(OpenCells) = 1
  /\ pc = "found"
  /\ Start = Goal

\* C7: with zero open interior cells the degenerate grid is reported as an
\* outcome of its own before any stop is indexed: no index outside the (empty)
\* stop table is used, and the run ends neither as success nor as no-path.
C7_DegenerateGridReported ==
  OpenCells = {} =>
    /\ ~oob
    /\ result \notin {"success", "failure"}
    /\ pc \notin {"searching", "found", "notfound", "crashed"}
    /\ out \notin {"path", "IMPOSSIBLE"}

\* C8: on success the path is goal-first, start-last: its first entry is the
\* goal, its last entry is stop 0 and is the only entry with from = none, each
\* next entry is the from-predecessor of the one before it and a route joins
\* it to that one, no stop repeats, and p_len is the number of entries.
C8_PathGoalFirst ==
  (pc = "found" /\ s_len > 0) =>
    /\ p_len = Len(path)
    /\ p_len >= 1
    /\ path[1] = Goal
    /\ path[Len(path)] = Start
    /\ \A k \in 1..Len(path) : (At(stops, path[k]).from = -1) <=> (k = Len(path))
    /\ \A k \in 1..(Len(path) - 1) :
         /\ path[k + 1] = At(stops, path[k]).from
         /\ HasRoute(path[k + 1], path[k])
    /\ \A k, m \in 1..Len(path) : path[k] = path[m] => k = m

\* the search has returned a path of at least three stops
C8_Witness ==
  /\ pc = "found"
  /\ p_len >= 3
  /\ path[1] = Goal
  /\ path[p_len] = Start

\* u is to be expanded before every other stop of the frontier fr
IsFirst(u, fr) ==
  \A v \in fr \ {u} :
    \/ Less(At(stops, u).f, At(stops, v).f)
    \/ (At(stops, u).f = At(stops, v).f /\ u < v)

Unseen(v) == v \notin open /\ v \notin closed /\ At(stops, v).g = DBL_MAX /\ At(stops, v).from = -1

IsOpenStop(v) == v \in open /\ v \notin closed /\ ~At(stops, v).g.inf

IsClosedStop(v) == v \in closed /\ v \notin open /\ ~At(stops, v).g.inf

C10_OneState ==
  /\ open \cup closed \subseteq 0..(Len(stops) - 1)
  /\ \A v \in 0..(Len(stops) - 1) : Unseen(v) \/ IsOpenStop(v) \/ IsClosedStop(v)

C10_Moves ==
  \A v \in 0..(Len(stops) - 1) :
    /\ Unseen(v) => (v \notin closed')
    /\ v \in open => (v \in open' \/ v \in closed')
    /\ v \in closed =>
         /\ v \in closed' /\ v \notin open'
         /\ At(stops', v).g = At(stops, v).g
         /\ At(stops', v).f = At(stops, v).f
         /\ At(stops', v).from = At(stops, v).from

\* C10: in every reachable state each stop is unseen (g = +infinity, from =
\* none), open (on the frontier, finite g) or closed (expanded, finite g) and
\* in one of them only; a stop moves only unseen -> open -> closed, and once
\* closed its g, f and from never change and it never re-enters the frontier.
C10_ThreeStates == []C10_OneState /\ [][C10_Moves]_vars

\* a closed stop has been met again by a route of a later expansion
C10_Witness ==
  /\ pc = "searching"
  /\ Cardinality(closed) >= 2
  /\ open # {}
  /\ \E v \in 0..(s_len - 1) : Unseen(v)

====
